---- MODULE Spec2Model ----
(***************************************************************************)
(* IttyBitty<N>: a bit set held in N machine words, which spills to a heap *)
(* buffer of words once a bit beyond the inline capacity is set.           *)
(*                                                                         *)
(* The machine word (usize) is modelled 8 bits wide, so INLINE_BITS = 8,   *)
(* usize::MAX = 255 and HEAP_FLAG = 128; every word is a number in         *)
(* 0..255 and the bit operators of the source (&, |, !, <<, >>,            *)
(* trailing_zeros, leading_zeros) are computed on these numbers.           *)
(* Slices are functions from 0-based word indices, as in the source.       *)
(***************************************************************************)
EXTENDS Integers, Sequences, FiniteSets, TLC

\* ------------------------------------------------------------- constants

\* const N: usize, the number of inline words (N > 1 is asserted by new()).
N == 2

\* size_of::<usize>() * 8 on a machine whose usize is one byte.
INLINE_BITS == 8

\* usize::MAX, also the NONE sentinel of the scan operations.
UsizeMax == (2 ^ INLINE_BITS) - 1

Word == 0 .. UsizeMax

\* ---------------------------------------------------------------- bounds

\* The highest bit index handed to set.
MaxBit == 24

\* How many words beyond the requested length the growable buffer may
\* allocate (Vec promises a capacity of at least the requested length).
MaxSlack == 1

\* How many bits may be true at once, over all instances.
MaxSetBits == 2

\* How many times next() is called on an iterator that has returned None.
MaxNones == 2

\* ------------------------------------------------------ word arithmetic

\* x & y, bit by bit from the lowest
RECURSIVE AndBits(_, _)
AndBits(x, y) ==
    IF x = 0 \/ y = 0 THEN 0
    ELSE (x % 2) * (y % 2) + 2 * AndBits(x \div 2, y \div 2)

\* x & y for every pair of words, computed once
AndTable == [x \in Word |-> [y \in Word |-> AndBits(x, y)]]

And(x, y) == AndTable[x][y]

\* x | y
Or(x, y) == x + y - And(x, y)

\* !x
Not(x) == UsizeMax - x

\* x << n, the bits shifted out of the word are lost
Shl(x, n) == (x * (2 ^ n)) % (UsizeMax + 1)

\* x >> n
Shr(x, n) == x \div (2 ^ n)

\* x.trailing_zeros(): INLINE_BITS for 0
RECURSIVE trailing_zeros(_)
trailing_zeros(x) ==
    IF x = 0 THEN INLINE_BITS
    ELSE IF x % 2 = 1 THEN 0
    ELSE 1 + trailing_zeros(x \div 2)

\* the number of bits up to and including the highest 1 of x
RECURSIVE BitLength(_)
BitLength(x) == IF x = 0 THEN 0 ELSE 1 + BitLength(x \div 2)

\* x.leading_zeros(): INLINE_BITS for 0
leading_zeros(x) == INLINE_BITS - BitLength(x)

\* usize addition as the release build computes it (wrapping)
Add(x, y) == (x + y) % (UsizeMax + 1)

INLINE_BITS_POT == trailing_zeros(INLINE_BITS)
INLINE_BITS_MASK == INLINE_BITS - 1
HEAP_FLAG == Shl(1, INLINE_BITS - 1)

CAPACITY_WORD == N - 1
POINTER_WORD == N - 2
INLINE_CAPACITY == INLINE_BITS * N - 1

\* a Rust range lo..hi: empty when lo >= hi
Range(lo, hi) == lo .. (hi - 1)

Max(x, y) == IF x >= y THEN x ELSE y
Min(x, y) == IF x <= y THEN x ELSE y

\* ----------------------------------------------------------------- state

\* The instances of IttyBitty<N> the program holds.
Insts == {1, 2}

\* The addresses the allocator hands out (never null): one per instance and
\* one more, for the moment a reallocation holds the old and the new buffer.
Addrs == 1 .. (Cardinality(Insts) + 1)

\* The content of an address that holds no allocation.
NoBuf == << >>

VARIABLES
    data,   \* data[x]: the [usize; N] of instance x, indexed 0..N-1
    heap,   \* heap[p]: the words of the allocation at address p, or NoBuf
    it,     \* the iterator the program holds, if any
    call,   \* the call that has just returned, until the caller goes on
    ub      \* an unchecked write has landed outside its slice

vars == << data, heap, it, call, ub >>

\* it.v is the instance the iterator borrows or owns, it.i its cursor, it.out
\* the indices it has yielded, it.done whether its last next() returned None,
\* it.nones how many times next() has returned None
NoIter == [kind |-> "none", v |-> 0, i |-> 0, out |-> << >>, done |-> FALSE,
           nones |-> 0]

\* call.op was called on instance a (and b, for a comparison) with the
\* arguments bit and value, and returned result; pre is instance a and the
\* heap as the call found them, freed the addresses the call gave back to
\* the allocator, in order, and oob whether the call read a word outside a
\* slice
NoPre == << >>
NoCall == [op |-> "none", a |-> 0, b |-> 0, bit |-> 0, value |-> FALSE,
           result |-> 0, pre |-> NoPre, freed |-> << >>, oob |-> FALSE]

Pre(x) == [data |-> data[x], heap |-> heap]

\* IttyBitty::new(): Self { data: [0; N] }
new == [w \in 0 .. (N - 1) |-> 0]

\* The address of a Vec that holds no allocation (NonNull::dangling()): not
\* one the allocator hands out.
Dangling == 0

Init ==
    /\ data = [x \in Insts |-> new]
    /\ heap = [p \in Addrs |-> NoBuf]
    /\ it = NoIter
    /\ call = NoCall
    /\ ub = FALSE

\* ------------------------------------------------------- storage layout

\* words_needed with the division rounded down instead of up
words_needed_floor(bits) == Shr(bits, INLINE_BITS_POT)

words_needed(bits) == Shr(Add(bits, INLINE_BITS_MASK), INLINE_BITS_POT)

spilled(d) == And(d[CAPACITY_WORD], HEAP_FLAG) # 0

pointer(d) == d[POINTER_WORD]

words(d) == IF spilled(d) THEN And(d[CAPACITY_WORD], Not(HEAP_FLAG)) ELSE N

\* buffer(): the words() heap words the instance points to; the slice of no
\* words is empty wherever the pointer points
buffer(d, h) == IF words(d) = 0 THEN NoBuf ELSE h[pointer(d)]

capacity(d) ==
    IF spilled(d)
    THEN (And(d[CAPACITY_WORD], Not(HEAP_FLAG)) * INLINE_BITS) % (UsizeMax + 1)
    ELSE INLINE_CAPACITY

\* the slice get_word_unchecked and get_word_unchecked_mut index into
slice(d, h) == IF spilled(d) THEN buffer(d, h) ELSE d

\* *self.get_word_unchecked(word), for a word inside the slice
get_word_unchecked(d, h, word) == slice(d, h)[word]

\* *self.get_word_unchecked_mut(word) = val.  A word outside the slice is
\* not written to the slice: oob reports the out-of-bounds write.
put_word_unchecked(d, h, word, val) ==
    IF word \notin DOMAIN slice(d, h)
    THEN [data |-> d, heap |-> h, oob |-> TRUE]
    ELSE IF spilled(d)
    THEN [data |-> d,
          heap |-> [h EXCEPT ![pointer(d)] = [@ EXCEPT ![word] = val]],
          oob |-> FALSE]
    ELSE [data |-> [d EXCEPT ![word] = val], heap |-> h, oob |-> FALSE]

\* ---------------------------------------------------------- bit accessors

get_unchecked(d, h, bit) ==
    LET w == Shr(bit, INLINE_BITS_POT)
        b == Shl(1, And(bit, INLINE_BITS_MASK))
    IN  And(get_word_unchecked(d, h, w), b) # 0

\* get that answers true beyond the capacity
get_default_true(d, h, bit) ==
    IF bit < capacity(d) THEN get_unchecked(d, h, bit) ELSE TRUE

get(d, h, bit) ==
    IF bit < capacity(d) THEN get_unchecked(d, h, bit) ELSE FALSE

\* whether get(bit) fetches a word outside the slice
get_out_of_bounds(d, h, bit) ==
    bit < capacity(d) /\ Shr(bit, INLINE_BITS_POT) \notin DOMAIN slice(d, h)

\* set_unchecked that sets the bit whatever val is
set_unchecked_always_sets(d, h, bit, val) ==
    LET w == Shr(bit, INLINE_BITS_POT)
        b == Shl(1, And(bit, INLINE_BITS_MASK))
    IN  IF w \notin DOMAIN slice(d, h)
        THEN [data |-> d, heap |-> h, oob |-> TRUE]
        ELSE put_word_unchecked(d, h, w, Or(get_word_unchecked(d, h, w), b))

set_unchecked(d, h, bit, val) ==
    LET w == Shr(bit, INLINE_BITS_POT)
        b == Shl(1, And(bit, INLINE_BITS_MASK))
    IN  IF w \notin DOMAIN slice(d, h)
        THEN [data |-> d, heap |-> h, oob |-> TRUE]
        ELSE LET word == get_word_unchecked(d, h, w)
             IN  IF val
                 THEN put_word_unchecked(d, h, w, Or(word, b))
                 ELSE put_word_unchecked(d, h, w, And(word, Not(b)))

\* Whether the instance holds an allocation: Vec::from_raw_parts(pointer(),
\* words, words) of a spilled instance is a Vec of capacity words(), and a
\* Vec of capacity 0 holds none.
owns(d) == spilled(d) /\ words(d) > 0

\* The Vec taken back from a spilled instance goes away: its allocation, if
\* it holds one, returns to the allocator.
release(d, h) == IF owns(d) THEN [h EXCEPT ![pointer(d)] = NoBuf] ELSE h

\* the addresses release(d, h) gives back
released(d) == IF owns(d) THEN << pointer(d) >> ELSE << >>

\* drop that gives nothing back
drop_forgets(d, h) == h

\* Drop::drop: the Vec taken back from a spilled instance is dropped
drop(d, h) == IF spilled(d) THEN release(d, h) ELSE h

\* from_pointer(ptr, cap)
from_pointer(ptr, cap) ==
    [w \in 0 .. (N - 1) |->
        IF w = CAPACITY_WORD THEN Or(cap, HEAP_FLAG)
        ELSE IF w = POINTER_WORD THEN ptr
        ELSE 0]

\* [0usize].repeat(n): a Vec of n zeros.  repeat asks Vec::with_capacity for
\* n words, which holds exactly n; the allocator puts them at p, and for
\* n = 0 nothing is allocated.
repeat_zero(h, n, p) ==
    IF n = 0
    THEN [ptr |-> Dangling, cap |-> 0, heap |-> h]
    ELSE [ptr |-> p, cap |-> n,
          heap |-> [h EXCEPT ![p] = [w \in 0 .. (n - 1) |-> 0]]]

\* from_vec(v): the instance takes the Vec's allocation over
from_vec(v) == [data |-> from_pointer(v.ptr, v.cap), heap |-> v.heap]

\* with_capacity(bits), with p the address the allocator would choose
with_capacity(h, bits, p) ==
    IF bits <= INLINE_CAPACITY
    THEN [data |-> new, heap |-> h]
    ELSE from_vec(repeat_zero(h, words_needed(bits), p))

\* reallocate that starts from an empty buffer instead of the current words
reallocate_fresh(d, h, bits, slack, p) ==
    IF bits <= capacity(d)
    THEN [data |-> d, heap |-> h, freed |-> << >>]
    ELSE LET vcap == IF spilled(d) THEN words(d) ELSE N
             newcap == Max(words_needed(bits), vcap + 1) + slack
         IN  [data |-> [d EXCEPT ![POINTER_WORD] = p,
                                 ![CAPACITY_WORD] = Or(newcap, HEAP_FLAG)],
              heap |-> [release(d, h) EXCEPT
                           ![p] = [w \in 0 .. (newcap - 1) |-> 0]],
              freed |-> released(d)]

\* reallocate that does not raise the heap flag
reallocate_unflagged(d, h, bits, slack, p) ==
    IF bits <= capacity(d)
    THEN [data |-> d, heap |-> h, freed |-> << >>]
    ELSE LET v == IF spilled(d) THEN buffer(d, h) ELSE d
             vcap == IF spilled(d) THEN words(d) ELSE N
             newcap == Max(words_needed(bits), vcap + 1) + slack
             grown == [w \in 0 .. (newcap - 1) |->
                          IF w \in DOMAIN v THEN v[w] ELSE 0]
         IN  [data |-> [d EXCEPT ![POINTER_WORD] = p,
                                 ![CAPACITY_WORD] = newcap],
              heap |-> [release(d, h) EXCEPT ![p] = grown],
              freed |-> released(d)]

\* reallocate that resizes to words_needed(bits) only
reallocate_exact(d, h, bits, slack, p) ==
    IF bits <= capacity(d)
    THEN [data |-> d, heap |-> h, freed |-> << >>]
    ELSE LET v == IF spilled(d) THEN buffer(d, h) ELSE d
             newcap == words_needed(bits) + slack
             grown == [w \in 0 .. (newcap - 1) |->
                          IF w \in DOMAIN v THEN v[w] ELSE 0]
         IN  [data |-> [d EXCEPT ![POINTER_WORD] = p,
                                 ![CAPACITY_WORD] = Or(newcap, HEAP_FLAG)],
              heap |-> [release(d, h) EXCEPT ![p] = grown],
              freed |-> released(d)]

\* reallocate(bits).  The growable buffer is the collaborator: after
\* resize(target, 0) its capacity is target + slack for some slack >= 0, the
\* loop of pushes fills it to that capacity with zeros, and p is where the
\* allocator put it.  to_vec() of the inline words has capacity N, and the
\* buffer taken back with from_raw_parts has capacity words().
reallocate(d, h, bits, slack, p) ==
    IF bits <= capacity(d)
    THEN [data |-> d, heap |-> h, freed |-> << >>]
    ELSE LET v == IF spilled(d) THEN buffer(d, h) ELSE d
             vcap == IF spilled(d) THEN words(d) ELSE N
             target == Max(words_needed(bits), vcap + 1)
             newcap == target + slack
             grown == [w \in 0 .. (newcap - 1) |->
                          IF w \in DOMAIN v THEN v[w] ELSE 0]
         IN  [data |-> [d EXCEPT ![POINTER_WORD] = p,
                                 ![CAPACITY_WORD] = Or(newcap, HEAP_FLAG)],
              heap |-> [release(d, h) EXCEPT ![p] = grown],
              freed |-> released(d)]

\* set that grows the storage for a false value too
set_grows_for_false(d, h, bit, value, slack, p) ==
    LET r == reallocate(d, h, Add(bit, 1), slack, p)
        u == set_unchecked(r.data, r.heap, bit, value)
    IN  [data |-> u.data, heap |-> u.heap, oob |-> u.oob, freed |-> r.freed]

set(d, h, bit, value, slack, p) ==
    IF bit >= capacity(d)
    THEN IF ~value
         THEN [data |-> d, heap |-> h, oob |-> FALSE, freed |-> << >>]
         ELSE LET r == reallocate(d, h, Add(bit, 1), slack, p)
                  u == set_unchecked(r.data, r.heap, bit, value)
              IN  [data |-> u.data, heap |-> u.heap, oob |-> u.oob,
                   freed |-> r.freed]
    ELSE LET u == set_unchecked(d, h, bit, value)
         IN  [data |-> u.data, heap |-> u.heap, oob |-> u.oob,
              freed |-> << >>]

\* clear that gives the buffer back and returns to the inline words
clear_to_inline(d, h) == [data |-> new, heap |-> release(d, h)]

\* clear(): every word of the slice becomes 0
clear(d, h) ==
    IF spilled(d) /\ words(d) = 0
    THEN [data |-> d, heap |-> h]
    ELSE IF spilled(d)
    THEN [data |-> d,
          heap |-> [h EXCEPT ![pointer(d)] =
                       [w \in Range(0, words(d)) |-> 0]]]
    ELSE [data |-> [w \in Range(0, words(d)) |-> 0], heap |-> h]

\* truncate that masks the word of bit and leaves the later words alone
truncate_one_word(d, h, bit) ==
    IF bit < capacity(d)
    THEN LET w == Shr(bit, INLINE_BITS_POT)
             b == And(bit, INLINE_BITS_MASK)
             cut == [slice(d, h) EXCEPT
                        ![w] = And(@, Not(Shl(Not(0), b)))]
         IN  IF spilled(d)
             THEN [data |-> d, heap |-> [h EXCEPT ![pointer(d)] = cut]]
             ELSE [data |-> cut, heap |-> h]
    ELSE [data |-> d, heap |-> h]

\* truncate(bit)
truncate(d, h, bit) ==
    IF bit < capacity(d)
    THEN LET w == Shr(bit, INLINE_BITS_POT)
             b == And(bit, INLINE_BITS_MASK)
             cut == [u \in DOMAIN slice(d, h) |->
                        IF u = w
                        THEN And(slice(d, h)[u], Not(Shl(Not(0), b)))
                        ELSE IF u \in Range(w + 1, words(d))
                        THEN 0
                        ELSE slice(d, h)[u]]
         IN  IF spilled(d)
             THEN [data |-> d, heap |-> [h EXCEPT ![pointer(d)] = cut]]
             ELSE [data |-> cut, heap |-> h]
    ELSE [data |-> d, heap |-> h]

\* ------------------------------------------------------------ the program

\* The allocator's choice of address for a new allocation: the lowest one
\* that holds no allocation.
FreshAddr(h) ==
    CHOOSE p \in Addrs : h[p] = NoBuf /\ \A q \in Addrs : q < p => h[q] # NoBuf

RECURSIVE PopCount(_)
PopCount(x) == IF x = 0 THEN 0 ELSE (x % 2) + PopCount(x \div 2)

RECURSIVE SumWords(_, _)
SumWords(s, n) == IF n = 0 THEN 0 ELSE PopCount(s[n - 1]) + SumWords(s, n - 1)

\* the number of true bits of an instance
CountBits(d, h) == SumWords(slice(d, h), words(d))

RECURSIVE TotalBits(_)
TotalBits(S) ==
    IF S = {} THEN 0
    ELSE LET x == CHOOSE y \in S : TRUE
         IN  CountBits(data[x], heap) + TotalBits(S \ {x})

\* no iterator borrows or owns an instance, and the last call is over
Idle == it.kind = "none" /\ call.op = "none"

BitInputs == 0 .. MaxBit

\* the slack the buffer may add: a choice only when set reallocates
SlackChoices(d, bit, value) ==
    IF value /\ bit >= capacity(d) THEN 0 .. MaxSlack ELSE {0}

\* x.set(bit, value)
Set(x, bit, value) ==
    /\ Idle
    /\ (value /\ ~get(data[x], heap, bit)) => TotalBits(Insts) < MaxSetBits
    /\ \E slack \in SlackChoices(data[x], bit, value) :
          LET r == set(data[x], heap, bit, value, slack, FreshAddr(heap))
          IN  /\ data' = [data EXCEPT ![x] = r.data]
              /\ heap' = r.heap
              /\ ub' = (ub \/ r.oob)
              /\ call' = [NoCall EXCEPT !.op = "set", !.a = x, !.bit = bit,
                                        !.value = value, !.pre = Pre(x),
                                        !.freed = r.freed]
    /\ UNCHANGED it

\* x.clear()
Clear(x) ==
    /\ Idle
    /\ LET r == clear(data[x], heap)
       IN  data' = [data EXCEPT ![x] = r.data] /\ heap' = r.heap
    /\ call' = [NoCall EXCEPT !.op = "clear", !.a = x, !.pre = Pre(x)]
    /\ UNCHANGED << it, ub >>

TruncateInputs == (0 .. (MaxBit + 1)) \cup {UsizeMax}

\* x.truncate(bit)
Truncate(x, bit) ==
    /\ Idle
    /\ LET r == truncate(data[x], heap, bit)
       IN  data' = [data EXCEPT ![x] = r.data] /\ heap' = r.heap
    /\ call' = [NoCall EXCEPT !.op = "truncate", !.a = x, !.bit = bit,
                              !.pre = Pre(x)]
    /\ UNCHANGED << it, ub >>

\* the caller goes on after the call
Return ==
    /\ call.op # "none"
    /\ call' = NoCall
    /\ UNCHANGED << data, heap, it, ub >>

\* x.get(bit)
Get(x, bit) ==
    /\ Idle
    /\ call' = [NoCall EXCEPT !.op = "get", !.a = x, !.bit = bit,
                              !.result = get(data[x], heap, bit),
                              !.oob = get_out_of_bounds(data[x], heap, bit),
                              !.pre = Pre(x)]
    /\ UNCHANGED << data, heap, it, ub >>

\* x = IttyBitty::with_capacity(bits): the new instance is made, then the
\* one x held is dropped
WithCapacity(x, bits) ==
    /\ Idle
    /\ LET r == with_capacity(heap, bits, FreshAddr(heap))
       IN  /\ data' = [data EXCEPT ![x] = r.data]
           /\ heap' = drop(data[x], r.heap)
    /\ call' = [NoCall EXCEPT !.op = "with_capacity", !.a = x, !.bit = bits,
                              !.pre = Pre(x), !.freed = released(data[x])]
    /\ UNCHANGED << it, ub >>

\* x goes out of scope and is dropped; the program goes on with a new() in
\* its place
Drop(x) ==
    /\ Idle
    /\ data' = [data EXCEPT ![x] = new]
    /\ heap' = drop(data[x], heap)
    /\ call' = [NoCall EXCEPT !.op = "drop", !.a = x, !.pre = Pre(x),
                              !.freed = released(data[x])]
    /\ UNCHANGED << it, ub >>

\* the mutating calls on x, with set given the indices of B and truncate
\* those of T
Mutate(x, B, T) ==
    \/ \E bit \in B, value \in BOOLEAN : Set(x, bit, value)
    \/ Clear(x)
    \/ \E bit \in T : Truncate(x, bit)

\* ------------------------------------------------------- scan operations

\* the loop of next_set_bit: for w in from..words()
RECURSIVE next_scan(_, _, _)
next_scan(d, h, w) ==
    IF w >= words(d) THEN UsizeMax
    ELSE LET next == trailing_zeros(get_word_unchecked(d, h, w))
         IN  IF next < INLINE_BITS
             THEN Add(next, Shl(w, INLINE_BITS_POT))
             ELSE next_scan(d, h, w + 1)

\* next_set_bit that does not mask off the bits below bit
next_set_bit_unmasked(d, h, bit) ==
    IF bit >= capacity(d) THEN UsizeMax
    ELSE LET w == Shr(bit, INLINE_BITS_POT)
             next == trailing_zeros(get_word_unchecked(d, h, w))
         IN  IF next < INLINE_BITS
             THEN Add(next, Shl(w, INLINE_BITS_POT))
             ELSE next_scan(d, h, w + 1)

next_set_bit(d, h, bit) ==
    IF bit >= capacity(d) THEN UsizeMax
    ELSE LET w == Shr(bit, INLINE_BITS_POT)
             b == And(bit, INLINE_BITS_MASK)
             next == trailing_zeros(
                         And(get_word_unchecked(d, h, w), Shl(Not(0), b)))
         IN  IF next < INLINE_BITS
             THEN Add(next, Shl(w, INLINE_BITS_POT))
             ELSE next_scan(d, h, w + 1)

\* the loop of prev_set_bit: for w in (0..below).rev()
RECURSIVE prev_scan(_, _, _)
prev_scan(d, h, below) ==
    IF below <= 0 THEN UsizeMax
    ELSE LET w == below - 1
             prev == leading_zeros(get_word_unchecked(d, h, w))
         IN  IF prev < INLINE_BITS
             THEN Shl(w, INLINE_BITS_POT) + INLINE_BITS - 1 - prev
             ELSE prev_scan(d, h, w)

prev_set_bit(d, h, bit0) ==
    IF bit0 = 0 THEN UsizeMax
    ELSE LET bit == Min(bit0, capacity(d) - 1)
             w == Shr(bit, INLINE_BITS_POT)
             b == And(bit, INLINE_BITS_MASK)
             prev == leading_zeros(
                         And(get_word_unchecked(d, h, w), Not(Shl(Not(0), b))))
         IN  IF prev < INLINE_BITS
             THEN Shl(w, INLINE_BITS_POT) + INLINE_BITS - 1 - prev
             ELSE prev_scan(d, h, w)

\* the arguments handed to the scans: every index up to one past the
\* capacity, and usize::MAX
ScanInputs(d) == (0 .. (capacity(d) + 1)) \cup {UsizeMax}

\* x.next_set_bit(bit)
NextSetBit(x, bit) ==
    /\ Idle
    /\ call' = [NoCall EXCEPT !.op = "next_set_bit", !.a = x, !.bit = bit,
                              !.result = next_set_bit(data[x], heap, bit)]
    /\ UNCHANGED << data, heap, it, ub >>

\* x.prev_set_bit(bit)
PrevSetBit(x, bit) ==
    /\ Idle
    /\ call' = [NoCall EXCEPT !.op = "prev_set_bit", !.a = x, !.bit = bit,
                              !.result = prev_set_bit(data[x], heap, bit)]
    /\ UNCHANGED << data, heap, it, ub >>

Scan(x) ==
    \/ \E bit \in ScanInputs(data[x]) : NextSetBit(x, bit)
    \/ \E bit \in ScanInputs(data[x]) : PrevSetBit(x, bit)

\* -------------------------------------------------------------- iteration

None(i) == [i |-> i, some |-> FALSE, val |-> 0]
Some(i, val) == [i |-> i, some |-> TRUE, val |-> val]

\* Iter::next that leaves the cursor on the index it yields
Iter_next_stuck(d, h, i) ==
    LET i1 == next_set_bit(d, h, i)
    IN  IF i1 = UsizeMax THEN None(i1) ELSE Some(i1, i1)

\* Iter::next with cursor i: the new cursor and the Option returned
Iter_next(d, h, i) ==
    LET i1 == next_set_bit(d, h, i)
    IN  IF i1 = UsizeMax THEN None(i1) ELSE Some(Add(i1, 1), i1)

\* IntoIter::next
IntoIter_next(d, h, i) ==
    LET i1 == next_set_bit(d, h, i)
    IN  IF i1 = UsizeMax THEN None(i1) ELSE Some(Add(i1, 1), i1)

\* IterRev::next that does not look at the cursor before it searches
IterRev_next_restarts(d, h, i) ==
    LET i1 == prev_set_bit(d, h, i)
    IN  IF i1 = UsizeMax THEN None(i1) ELSE Some(i1, i1)

\* IterRev::next
IterRev_next(d, h, i) ==
    IF i = UsizeMax THEN None(i)
    ELSE LET i1 == prev_set_bit(d, h, i)
         IN  IF i1 = UsizeMax THEN None(i1) ELSE Some(i1, i1)

\* x.iter()
iter(x) ==
    /\ Idle
    /\ it' = [NoIter EXCEPT !.kind = "iter", !.v = x, !.i = 0]
    /\ UNCHANGED << data, heap, call, ub >>

\* x.iter_rev()
iter_rev(x) ==
    /\ Idle
    /\ it' = [NoIter EXCEPT !.kind = "iter_rev", !.v = x,
                            !.i = capacity(data[x])]
    /\ UNCHANGED << data, heap, call, ub >>

\* x.into_iter(): the instance moves into the iterator
into_iter(x) ==
    /\ Idle
    /\ it' = [NoIter EXCEPT !.kind = "into_iter", !.v = x, !.i = 0]
    /\ UNCHANGED << data, heap, call, ub >>

\* the iterator after a call of next() that returned r
Stepped(r) ==
    [it EXCEPT !.i = r.i,
               !.out = IF r.some THEN Append(@, r.val) ELSE @,
               !.done = ~r.some,
               !.nones = IF r.some THEN @ ELSE @ + 1]

IterNext ==
    /\ it.kind = "iter"
    /\ it.nones < MaxNones
    /\ it' = Stepped(Iter_next(data[it.v], heap, it.i))
    /\ UNCHANGED << data, heap, call, ub >>

IterRevNext ==
    /\ it.kind = "iter_rev"
    /\ it.nones < MaxNones
    /\ it' = Stepped(IterRev_next(data[it.v], heap, it.i))
    /\ UNCHANGED << data, heap, call, ub >>

IntoIterNext ==
    /\ it.kind = "into_iter"
    /\ it.nones < MaxNones
    /\ it' = Stepped(IntoIter_next(data[it.v], heap, it.i))
    /\ UNCHANGED << data, heap, call, ub >>

\* a borrowing iterator goes out of scope
DropIter ==
    /\ it.kind \in {"iter", "iter_rev"}
    /\ it' = NoIter
    /\ UNCHANGED << data, heap, call, ub >>

\* the owning iterator goes out of scope and drops the instance in it; the
\* program goes on with a new() in its place
DropIntoIter ==
    /\ it.kind = "into_iter"
    /\ it' = NoIter
    /\ heap' = drop(data[it.v], heap)
    /\ data' = [data EXCEPT ![it.v] = new]
    /\ call' = [NoCall EXCEPT !.op = "drop_iter", !.a = it.v, !.pre = Pre(it.v),
                              !.freed = released(data[it.v])]
    /\ UNCHANGED ub

Iterate(x) ==
    \/ iter(x)
    \/ iter_rev(x)
    \/ into_iter(x)
    \/ IterNext
    \/ IterRevNext
    \/ IntoIterNext
    \/ DropIter
    \/ DropIntoIter

\* --------------------------------------------------------------- equality

\* *x.get_word_unchecked(w) in eq.  A word outside the slice is read from
\* whatever lies behind it: junk[w].
read_word(d, h, w, junk) ==
    IF w \in DOMAIN slice(d, h) THEN slice(d, h)[w] ELSE junk[w]

\* the last loop of eq: for w in w..n, return false at the first difference
RECURSIVE eq_loop(_, _, _, _, _, _)
eq_loop(da, db, h, junk, w, n) ==
    IF w >= n THEN TRUE
    ELSE IF read_word(da, h, w, junk) # read_word(db, h, w, junk) THEN FALSE
    ELSE eq_loop(da, db, h, junk, w + 1, n)

\* PartialEq::eq(self = da, other = db)
eq(da, db, h, junk) ==
    LET words_a == words(da)
        words_b == words(db)
    IN  IF /\ words_a > words_b
           /\ \E w \in Range(words_a, words_b) : read_word(db, h, w, junk) # 0
        THEN FALSE
        ELSE IF /\ words_b > words_a
                /\ \E w \in Range(words_b, words_a) :
                       read_word(da, h, w, junk) # 0
        THEN FALSE
        ELSE eq_loop(da, db, h, junk, 0, words_a)

\* whether the last loop of eq fetches a word outside either slice before it
\* returns
RECURSIVE eq_loop_out_of_bounds(_, _, _, _, _, _)
eq_loop_out_of_bounds(da, db, h, junk, w, n) ==
    IF w >= n THEN FALSE
    ELSE IF w \notin DOMAIN slice(da, h) \/ w \notin DOMAIN slice(db, h)
    THEN TRUE
    ELSE IF read_word(da, h, w, junk) # read_word(db, h, w, junk) THEN FALSE
    ELSE eq_loop_out_of_bounds(da, db, h, junk, w + 1, n)

\* whether eq(self = da, other = db) fetches a word outside the slice of the
\* instance it fetches it from
eq_out_of_bounds(da, db, h, junk) ==
    LET words_a == words(da)
        words_b == words(db)
    IN  \/ /\ words_a > words_b
           /\ \E w \in Range(words_a, words_b) : w \notin DOMAIN slice(db, h)
        \/ /\ words_b > words_a
           /\ \E w \in Range(words_b, words_a) : w \notin DOMAIN slice(da, h)
        \/ eq_loop_out_of_bounds(da, db, h, junk, 0, words_a)

\* What the reads behind the shorter slice can return.  eq only compares
\* such a word with the word of the longer instance at the same index, so
\* the values fall in two classes, that word and any other: one of each.
JunkChoices(da, db, h) ==
    LET wa == words(da)
        wb == words(db)
        long == IF wa >= wb THEN slice(da, h) ELSE slice(db, h)
        behind == Range(Min(wa, wb), Max(wa, wb))
    IN  { [w \in behind |-> IF w \in same THEN long[w] ELSE Not(long[w])] :
              same \in SUBSET behind }

\* x == y
Compare(x, y) ==
    /\ Idle
    /\ \E junk \in JunkChoices(data[x], data[y], heap) :
          call' = [NoCall EXCEPT !.op = "eq", !.a = x, !.b = y,
                      !.result = eq(data[x], data[y], heap, junk),
                      !.oob = eq_out_of_bounds(data[x], data[y], heap, junk)]
    /\ UNCHANGED << data, heap, it, ub >>

\* --------------------------------------------------------- specifications

\* One instance, mutated, scanned and iterated.
Next ==
    \/ Mutate(1, BitInputs, TruncateInputs)
    \/ Scan(1)
    \/ Iterate(1)
    \/ Return

Spec == Init /\ [][Next]_vars

\* Two instances, mutated and compared.  set is given the first and the
\* last bit of every word and truncate the word boundaries: eq compares
\* whole words.
EqBitInputs == {b \in BitInputs : And(b, INLINE_BITS_MASK) \in {0, INLINE_BITS_MASK}}
EqTruncateInputs == {b \in EqBitInputs : And(b, INLINE_BITS_MASK) = 0} \cup {UsizeMax}

NextEq ==
    \/ \E x \in Insts : Mutate(x, EqBitInputs, EqTruncateInputs)
    \/ \E x \in Insts : \E y \in Insts \ {x} : Compare(x, y)
    \/ Return

SpecEq == Init /\ [][NextEq]_vars

\* One instance through its lives: made by new() or with_capacity(),
\* written, read, consumed by an owning iterator, dropped.  with_capacity is
\* given every hint up to one past MaxBit and the hints of the last word of
\* the index range.
HintInputs == (0 .. (MaxBit + 1)) \cup ((UsizeMax - INLINE_BITS) .. UsizeMax)

\* the indices handed to get: those around the capacity and the ends of the
\* index range, and those handed to set
GetInputs(d) ==
    (BitInputs \cup {capacity(d) - 1, capacity(d), capacity(d) + 1, UsizeMax})
        \cap Word

NextLife ==
    \/ Mutate(1, BitInputs, TruncateInputs)
    \/ \E bit \in GetInputs(data[1]) : Get(1, bit)
    \/ \E bits \in HintInputs : WithCapacity(1, bits)
    \/ Drop(1)
    \/ into_iter(1)
    \/ IntoIterNext
    \/ DropIntoIter
    \/ Return

SpecLife == Init /\ [][NextLife]_vars

\* Two instances, each made, grown, emptied and dropped beside the other.
\* set is given the first index, the first beyond the inline capacity and
\* the last; with_capacity a hint on each side of the inline capacity and
\* the largest one.
PairBitInputs == {0, INLINE_CAPACITY, MaxBit}
PairTruncateInputs == {0}
PairHintInputs == {INLINE_CAPACITY, INLINE_CAPACITY + 1, UsizeMax}

NextPair ==
    \/ \E x \in Insts : Mutate(x, PairBitInputs, PairTruncateInputs)
    \/ \E x \in Insts : \E bits \in PairHintInputs : WithCapacity(x, bits)
    \/ \E x \in Insts : Drop(x)
    \/ Return

SpecPair == Init /\ [][NextPair]_vars

\* One instance, with set given the indices of the last word of the index
\* range, where bit + 1 and words_needed(bit + 1) leave the machine word,
\* beside the first index, the first beyond the inline capacity and MaxBit.
\* Once a write has landed outside its slice nothing is known of what the
\* program does next: it is followed no further.
WideBitInputs ==
    {0, INLINE_CAPACITY, MaxBit} \cup ((UsizeMax - INLINE_BITS_MASK) .. UsizeMax)
WideTruncateInputs == {0, INLINE_CAPACITY, UsizeMax}

NextWide ==
    \/ ~ub /\ Mutate(1, WideBitInputs, WideTruncateInputs)
    \/ ~ub /\ \E bit \in GetInputs(data[1]) : Get(1, bit)
    \/ Return

SpecWide == Init /\ [][NextWide]_vars

\* ------------------------------------------------------------- properties

\* the indices whose bit is true
Bits(d, h) == {b \in Word : get(d, h, b)}

\* the instance a call was made on, as it is now and as the call found it
BitsNow == Bits(data[call.a], heap)
BitsPre == Bits(call.pre.data, call.pre.heap)

Lowest(S) == CHOOSE m \in S : \A y \in S : m <= y
Highest(S) == CHOOSE m \in S : \A y \in S : m >= y

RECURSIVE Ascending(_)
Ascending(S) ==
    IF S = {} THEN << >>
    ELSE << Lowest(S) >> \o Ascending(S \ {Lowest(S)})

RECURSIVE Descending(_)
Descending(S) ==
    IF S = {} THEN << >>
    ELSE << Highest(S) >> \o Descending(S \ {Highest(S)})

IsPrefix(s, t) == Len(s) <= Len(t) /\ SubSeq(t, 1, Len(s)) = s

\* everything iter() yields from cursor i on, by calling Iter::next until None
RECURSIVE Collect(_, _, _)
Collect(d, h, i) ==
    LET r == Iter_next(d, h, i)
    IN  IF r.some THEN << r.val >> \o Collect(d, h, r.i) ELSE << >>

\* C1: when set(b, value) has returned, get(b) is value: true after
\* set(b, true), false after set(b, false), whether b was below the capacity
\* or set(b, true) had to grow the storage.
RoundTrip ==
    call.op = "set" => get(data[call.a], heap, call.bit) = call.value

\* set(b, true) has grown a heap buffer into a larger one, and b reads true
RoundTripWitness ==
    /\ call.op = "set"
    /\ call.value
    /\ spilled(call.pre.data)
    /\ call.bit >= capacity(call.pre.data)
    /\ get(data[call.a], heap, call.bit)

\* C2: set(b, v) leaves get(c) as it was for every index c other than b, also
\* across the move of the inline words to the heap and across a regrowth.
SetFrame ==
    call.op = "set" =>
        \A c \in Word \ {call.bit} :
            get(data[call.a], heap, c) = get(call.pre.data, call.pre.heap, c)

\* set has moved an inline instance that held a true bit to the heap
SetFrameWitness ==
    /\ call.op = "set"
    /\ ~spilled(call.pre.data)
    /\ spilled(data[call.a])
    /\ BitsPre # {}

\* C3: two instances that differ in some bit do not compare equal.
EqSeesEveryBit ==
    (call.op = "eq" /\ Bits(data[call.a], heap) # Bits(data[call.b], heap))
        => call.result = FALSE

\* C4: two instances with the same true bits compare equal, both ways,
\* whatever their storage modes and word counts.
EqIgnoresStorage ==
    (call.op = "eq" /\ Bits(data[call.a], heap) = Bits(data[call.b], heap))
        => call.result = TRUE

\* C5: prev_set_bit(bit) is the highest true index below bit, or NONE when
\* there is none, for every bit.
PrevSetBitIsHighestBelow ==
    call.op = "prev_set_bit" =>
        LET below == {i \in BitsNow : i < call.bit}
        IN  call.result = IF below = {} THEN UsizeMax ELSE Highest(below)

\* C6: an iter_rev() run to its end has yielded exactly the true indices, in
\* descending order.
IterRevDescending ==
    (it.kind = "iter_rev" /\ it.done)
        => it.out = Descending(Bits(data[it.v], heap))

\* C7: next_set_bit(bit) is the lowest true index at or above bit, or NONE
\* when there is none, and NONE when bit is at or beyond the capacity.
NextSetBitIsLowestFrom ==
    call.op = "next_set_bit" =>
        LET from == {i \in BitsNow : i >= call.bit}
        IN  /\ call.result = IF from = {} THEN UsizeMax ELSE Lowest(from)
            /\ call.bit >= capacity(data[call.a]) => call.result = UsizeMax

\* next_set_bit has found a bit of a later word of a heap buffer
NextSetBitWitness ==
    /\ call.op = "next_set_bit"
    /\ spilled(data[call.a])
    /\ call.result # UsizeMax
    /\ Shr(call.result, INLINE_BITS_POT) > Shr(call.bit, INLINE_BITS_POT)

\* C8: what iter() and into_iter() have yielded is at every moment the start
\* of the ascending sequence of the true indices, and all of it once next()
\* has returned None; into_iter() yields what iter() yields.
IterAscending ==
    it.kind \in {"iter", "into_iter"} =>
        LET all == Ascending(Bits(data[it.v], heap))
        IN  /\ IsPrefix(it.out, all)
            /\ it.done => it.out = all
            /\ (it.kind = "into_iter" /\ it.done)
                   => it.out = Collect(data[it.v], heap, 0)

\* iter() has run to its end over a heap buffer with several true bits
IterAscendingWitness ==
    /\ it.kind = "iter"
    /\ it.done
    /\ spilled(data[it.v])
    /\ Len(it.out) > 1

\* C9: set, clear and truncate never lower capacity(), and a set(b, true)
\* called with b >= capacity() returns with capacity() > b.
CapacityGrows ==
    call.op \in {"set", "clear", "truncate"} =>
        /\ capacity(data[call.a]) >= capacity(call.pre.data)
        /\ (call.op = "set" /\ call.value /\ call.bit >= capacity(call.pre.data))
               => capacity(data[call.a]) > call.bit

\* set(b, true) beyond the capacity of a heap buffer has raised the capacity
CapacityGrowsWitness ==
    /\ call.op = "set"
    /\ call.value
    /\ spilled(call.pre.data)
    /\ call.bit >= capacity(call.pre.data)
    /\ capacity(data[call.a]) > capacity(call.pre.data)

\* C10: after truncate(k) every index from k on reads false and every index
\* below k reads as before; capacity(), the storage mode, the buffer's
\* address and length and the set of allocations are as before.
TruncateCuts ==
    call.op = "truncate" =>
        /\ \A b \in Word :
               get(data[call.a], heap, b)
                   = (b < call.bit /\ get(call.pre.data, call.pre.heap, b))
        /\ capacity(data[call.a]) = capacity(call.pre.data)
        /\ spilled(data[call.a]) = spilled(call.pre.data)
        /\ spilled(data[call.a])
               => pointer(data[call.a]) = pointer(call.pre.data)
        /\ \A p \in Addrs : DOMAIN heap[p] = DOMAIN call.pre.heap[p]

\* truncate(k), k inside a word of a heap buffer, has cleared a bit and kept
\* a lower one
TruncateCutsWitness ==
    /\ call.op = "truncate"
    /\ spilled(call.pre.data)
    /\ And(call.bit, INLINE_BITS_MASK) # 0
    /\ \E b \in BitsPre : b >= call.bit
    /\ \E b \in BitsNow : b < call.bit

\* an instance as new() and with_capacity() are to return it: no word of
\* its slice holds a bit
Blank(d, h) == \A w \in DOMAIN slice(d, h) : slice(d, h)[w] = 0

\* the addresses that hold an allocation
Live(h) == {p \in Addrs : h[p] # NoBuf}

\* the elements of a sequence
Elems(s) == {s[i] : i \in DOMAIN s}

\* C11: get(b) returns false whenever b >= capacity(), and for every b on an
\* instance as the constructors return it; it fetches no word outside the
\* slice and leaves the instance and the heap as they were.
GetDefaultsFalse ==
    call.op = "get" =>
        /\ call.bit >= capacity(data[call.a]) => call.result = FALSE
        /\ Blank(call.pre.data, call.pre.heap) => call.result = FALSE
        /\ ~call.oob
        /\ data[call.a] = call.pre.data
        /\ heap = call.pre.heap

\* get beyond the capacity of a heap buffer that holds a true bit
GetDefaultsFalseWitness ==
    /\ call.op = "get"
    /\ spilled(data[call.a])
    /\ BitsNow # {}
    /\ call.bit >= capacity(data[call.a])
    /\ call.result = FALSE

\* C12: with_capacity(h) returns an instance with every bit false and
\* capacity() >= h, inline exactly when h <= INLINE_CAPACITY; and each later
\* set(b, true) adds b to the true indices and to nothing else, so that
\* iter() yields what it yields for an instance made by new().
WithCapacityAsNew ==
    /\ call.op = "with_capacity" =>
           /\ BitsNow = {}
           /\ capacity(data[call.a]) >= call.bit
           /\ spilled(data[call.a]) <=> call.bit > INLINE_CAPACITY
    /\ (call.op = "set" /\ call.value) =>
           /\ BitsNow = BitsPre \cup {call.bit}
           /\ Collect(data[call.a], heap, 0) = Ascending(BitsNow)

\* C13: set(b, false) with b >= capacity() leaves the words of the instance
\* and the whole heap as they were, and gives nothing back to the allocator.
SetFalseBeyondIsNoOp ==
    (call.op = "set" /\ ~call.value /\ call.bit >= capacity(call.pre.data)) =>
        /\ data[call.a] = call.pre.data
        /\ heap = call.pre.heap
        /\ call.freed = << >>

\* set(b, false) beyond the capacity of a heap buffer that holds a true bit
SetFalseBeyondWitness ==
    /\ call.op = "set"
    /\ ~call.value
    /\ spilled(call.pre.data)
    /\ BitsPre # {}
    /\ call.bit >= capacity(call.pre.data)

\* C14: after clear() every index reads false; capacity(), the storage mode,
\* the pointer and the word count are as before, every allocation is still
\* there with its length, and nothing was given back.
ClearKeepsStorage ==
    call.op = "clear" =>
        /\ \A b \in Word : ~get(data[call.a], heap, b)
        /\ capacity(data[call.a]) = capacity(call.pre.data)
        /\ spilled(data[call.a]) = spilled(call.pre.data)
        /\ spilled(data[call.a]) => data[call.a] = call.pre.data
        /\ \A p \in Addrs : DOMAIN heap[p] = DOMAIN call.pre.heap[p]
        /\ call.freed = << >>

\* clear() of a heap buffer that held a true bit
ClearKeepsStorageWitness ==
    /\ call.op = "clear"
    /\ spilled(call.pre.data)
    /\ BitsPre # {}
    /\ BitsNow = {}

\* C15: a heap instance stays a heap instance through set, clear and
\* truncate; an inline instance leaves the inline mode exactly in a
\* set(b, true) with b >= INLINE_CAPACITY; and whenever the heap flag is
\* up the pointer word is the address of a live buffer of words() words.
SpillOneWay ==
    /\ call.op \in {"set", "clear", "truncate"} =>
           /\ spilled(call.pre.data) => spilled(data[call.a])
           /\ ~spilled(call.pre.data) =>
                  (spilled(data[call.a])
                      <=> /\ call.op = "set"
                          /\ call.value
                          /\ call.bit >= INLINE_CAPACITY)
    /\ \A x \in Insts :
           spilled(data[x]) =>
               /\ pointer(data[x]) \in Live(heap)
               /\ DOMAIN heap[pointer(data[x])] = Range(0, words(data[x]))

\* set(INLINE_CAPACITY, true), the index of the flag bit, has moved an inline
\* instance to the heap
SpillOneWayWitness ==
    /\ call.op = "set"
    /\ call.value
    /\ call.bit = INLINE_CAPACITY
    /\ ~spilled(call.pre.data)
    /\ spilled(data[call.a])

\* bits divided by INLINE_BITS and rounded up, in the integers
CeilWords(bits) == (bits + INLINE_BITS - 1) \div INLINE_BITS

\* C16: reallocate(bits) with bits <= capacity() changes nothing; the
\* reallocate(b + 1) of a set(b, true) with b >= capacity() leaves at least
\* max(b + 1 divided by INLINE_BITS and rounded up, words() + 1) words, and
\* the words added hold nothing but the bit set after it.
ReallocateGrows ==
    /\ \A bits \in 0 .. capacity(data[1]) :
           LET r == reallocate(data[1], heap, bits, 0, FreshAddr(heap))
           IN  r.data = data[1] /\ r.heap = heap /\ r.freed = << >>
    /\ (call.op = "set" /\ call.value /\ call.bit >= capacity(call.pre.data)) =>
           LET before == words(call.pre.data)
               after == words(data[call.a])
           IN  /\ after >= Max(CeilWords(call.bit + 1), before + 1)
               /\ \A w \in Range(before, after) :
                      slice(data[call.a], heap)[w] =
                          IF w = Shr(call.bit, INLINE_BITS_POT)
                          THEN Shl(1, And(call.bit, INLINE_BITS_MASK))
                          ELSE 0

\* a set(b, true) whose b + 1 fits the words the buffer has has grown the
\* buffer by a word
ReallocateGrowsWitness ==
    /\ call.op = "set"
    /\ call.value
    /\ ~spilled(call.pre.data)
    /\ call.bit = INLINE_CAPACITY
    /\ words(data[call.a]) > words_needed(call.bit + 1)

\* C17: an allocation is live exactly when a heap instance points to it; a
\* heap instance points to a live allocation of words() words, so that
\* capacity() is its length times INLINE_BITS; and no two instances point to
\* the same one.
BufferInvariant ==
    /\ \A x \in Insts :
           spilled(data[x]) =>
               /\ pointer(data[x]) \in Live(heap)
               /\ DOMAIN heap[pointer(data[x])] = Range(0, words(data[x]))
               /\ capacity(data[x])
                      = Cardinality(DOMAIN heap[pointer(data[x])]) * INLINE_BITS
    /\ \A p \in Live(heap) :
           \E x \in Insts : spilled(data[x]) /\ pointer(data[x]) = p
    /\ \A x \in Insts : \A y \in Insts \ {x} :
           (spilled(data[x]) /\ spilled(data[y]))
               => pointer(data[x]) # pointer(data[y])

\* C18: a call gives back only allocations that were live, each once, and
\* those are then gone; what is live is what an instance holds, so none is
\* left behind; a drop gives back the buffer of a heap instance and nothing
\* for an inline one.
ReleasedOnce ==
    /\ Live(heap) = {pointer(data[x]) : x \in {y \in Insts : owns(data[y])}}
    /\ call.op \notin {"none", "eq"} =>
           /\ Len(call.freed) = Cardinality(Elems(call.freed))
           /\ Elems(call.freed) \subseteq Live(call.pre.heap)
           /\ Live(call.pre.heap) \ Live(heap) = Elems(call.freed)
    /\ call.op \in {"drop", "drop_iter"} =>
           /\ call.freed = released(call.pre.data)
           /\ ~spilled(call.pre.data) => heap = call.pre.heap
           /\ Live(heap) = Live(call.pre.heap) \ Elems(call.freed)

\* the owning iterator has consumed a heap instance and dropped it
ReleasedOnceWitness ==
    /\ call.op = "drop_iter"
    /\ spilled(call.pre.data)
    /\ call.freed = << pointer(call.pre.data) >>
    /\ Live(heap) = {}

\* C19: an iterator has yielded no more indices than there are true bits,
\* and once next() has returned None its last call has returned None too.
IteratorsTerminate ==
    it.kind # "none" =>
        /\ Len(it.out) <= Cardinality(Bits(data[it.v], heap))
        /\ it.nones > 0 => it.done

\* iter_rev() has yielded an index and then returned None every time
IteratorsTerminateWitness ==
    /\ it.kind = "iter_rev"
    /\ it.nones = MaxNones
    /\ Len(it.out) > 0

\* C20: a comparison fetches no word at or beyond the word count of the
\* instance it fetches it from.
EqReadsInside ==
    call.op = "eq" => ~call.oob

\* C21: in a set(b, true) with b >= capacity(), b + 1 and
\* words_needed(b + 1) are the numbers they are in the integers, the
\* instance is left with at least that many words, and the write of bit b
\* lands inside them.
GrowthDoesNotWrap ==
    (call.op = "set" /\ call.value /\ call.bit >= capacity(call.pre.data)) =>
        /\ Add(call.bit, 1) = call.bit + 1
        /\ words_needed(Add(call.bit, 1)) = CeilWords(call.bit + 1)
        /\ words(data[call.a]) >= CeilWords(call.bit + 1)
        /\ Shr(call.bit, INLINE_BITS_POT) \in DOMAIN slice(data[call.a], heap)
        /\ ~ub

====
